---- MODULE Spec2Model ----
(***************************************************************************)
(* Model of glasses/src/main.cpp: an ESP32-CAM firmware that streams       *)
(* length-prefixed JPEG frames over a Bluetooth serial link and accepts    *)
(* "S14:<angle>" servo commands on the same link.                          *)
(*                                                                         *)
(* Text is modelled as sequences of one-character strings.  The outbound   *)
(* side of the link (tx) is the sequence of writes main.cpp hands to       *)
(* SerialBT, the inbound side (rx) the queue of received lines, each line  *)
(* being the text before its '\n' terminator.                              *)
(***************************************************************************)
EXTENDS Integers, Sequences, FiniteSets, TLC

(* ---------------------------- bounds ----------------------------------- *)
\* lines the peer sends in one run (consumed plus still buffered)
MaxLines == 2
\* frames that can sit on the outbound stream
MaxFrames == 1
\* ceiling of the counter of consecutive failed captures
MaxFails == 2

(* ---------------------- program constants ------------------------------ *)
\* camera_config.fb_count
fb_count == 1
\* constrain(angle, 0, 180)
MinAngle == 0
MaxAngle == 180
\* sizeof(frameSize), frameSize being a uint32_t
HeaderSize == 4

(* ------------------------------ text ----------------------------------- *)
Digits == <<"0", "1", "2", "3", "4", "5", "6", "7", "8", "9">>

IsDigit(c) == \E i \in 1..10 : Digits[i] = c

DigitVal(c) == (CHOOSE i \in 1..10 : Digits[i] = c) - 1

\* isspace() on the characters the inputs use
IsSpace(c) == c \in {" ", "\t", "\r", "\n"}

\* the part of s from 0-based index from to the end (String::substring(from))
Substring(s, from) == IF from >= Len(s) THEN << >> ELSE SubSeq(s, from + 1, Len(s))

\* String::startsWith(prefix)
StartsWith(s, prefix) ==
    /\ Len(s) >= Len(prefix)
    /\ SubSeq(s, 1, Len(prefix)) = prefix

RECURSIVE DropLeadingSpace(_)
DropLeadingSpace(s) ==
    IF s # << >> /\ IsSpace(Head(s)) THEN DropLeadingSpace(Tail(s)) ELSE s

RECURSIVE DropTrailingSpace(_)
DropTrailingSpace(s) ==
    IF s # << >> /\ IsSpace(s[Len(s)])
    THEN DropTrailingSpace(SubSeq(s, 1, Len(s) - 1))
    ELSE s

\* String::trim(): leading and trailing whitespace removed
Trim(s) == DropTrailingSpace(DropLeadingSpace(s))

\* value of the longest prefix of decimal digits of s, acc being the value so far
RECURSIVE DigitsValue(_, _)
DigitsValue(s, acc) ==
    IF s # << >> /\ IsDigit(Head(s))
    THEN DigitsValue(Tail(s), 10 * acc + DigitVal(Head(s)))
    ELSE acc

\* a strict conversion: 0 unless the whole text after the sign is digits
ToIntStrict(s) ==
    LET t == DropLeadingSpace(s)
        d == IF t # << >> /\ Head(t) \in {"-", "+"} THEN Tail(t) ELSE t
    IN  IF d = << >> \/ \E i \in 1..Len(d) : ~IsDigit(d[i]) THEN 0
        ELSE IF Head(t) = "-" THEN 0 - DigitsValue(d, 0)
        ELSE DigitsValue(d, 0)

\* String::toInt() is atol(): skip whitespace, take an optional sign, then
\* the decimal digits up to the first other character; 0 if there are none
ToInt(s) ==
    LET t == DropLeadingSpace(s)
    IN  IF t = << >> THEN 0
        ELSE IF Head(t) = "-" THEN 0 - DigitsValue(Tail(t), 0)
        ELSE IF Head(t) = "+" THEN DigitsValue(Tail(t), 0)
        ELSE DigitsValue(t, 0)

\* decimal digits of a natural number, as Print::print(int) writes them
RECURSIVE NatToText(_)
NatToText(n) ==
    IF n < 10 THEN << Digits[n + 1] >>
    ELSE NatToText(n \div 10) \o << Digits[(n % 10) + 1] >>

\* Print::print(int): a minus sign for negative values, then the digits
IntToText(n) == IF n < 0 THEN << "-" >> \o NatToText(0 - n) ELSE NatToText(n)

\* constrain without its upper limit
constrainLowOnly(amt, low, high) ==
    IF amt < low THEN low ELSE amt

\* the Arduino constrain(amt, low, high) macro
constrain(amt, low, high) ==
    IF amt < low THEN low ELSE IF amt > high THEN high ELSE amt

(* ----------------------------- framing --------------------------------- *)
\* the bytes of a uint32_t, most significant first
HeaderBytesBigEndian(n) ==
    << (n \div 16777216) % 256, (n \div 65536) % 256, (n \div 256) % 256, n % 256 >>

\* the bytes of a uint32_t in memory on the little-endian ESP32, which is
\* what SerialBT.write((uint8_t*)&frameSize, sizeof(frameSize)) sends
HeaderBytes(n) ==
    << n % 256, (n \div 256) % 256, (n \div 65536) % 256, (n \div 16777216) % 256 >>

\* "Servo set to " followed by the angle and the "\r\n" of println
AckPrefix == << "S", "e", "r", "v", "o", " ", "s", "e", "t", " ", "t", "o", " " >>

AckText(angle) == AckPrefix \o IntToText(angle) \o << "\r", "\n" >>

\* one write on the outbound stream: its kind, the bytes or characters it
\* carries (a payload's bytes are opaque) and the number of bytes written
AckWrite(angle) == [kind |-> "ack", data |-> AckText(angle), n |-> Len(AckText(angle))]

HeaderWrite(size) == [kind |-> "hdr", data |-> HeaderBytes(size), n |-> HeaderSize]

PayloadWrite(size) == [kind |-> "payload", data |-> << >>, n |-> size]

(* ------------------------------ inputs --------------------------------- *)
S14 == << "S", "1", "4", ":" >>

\* the lines a peer sends in the model
Lines ==
    { S14 \o << "9", "0" >>,
      S14 \o << "1", "8", "1" >>,
      S14 \o << "-", "5" >>,
      S14,
      << " " >> \o S14 \o << "4", "5", "x", "\r" >>,
      << "h", "i" >> }

\* fb->len of the frames the camera delivers
FrameLens == { 0, 16909060 }

NoCommand == << "<none>" >>

NoFb == [len |-> -1]

(* ------------------------------ state ---------------------------------- *)
VARIABLES
    pc,                \* position of the program in setup() and loop()
    err,               \* result of esp_camera_init ("unset" before the call)
    servoAttached,     \* myServo.attach(servoPin) has been called
    servoPos,          \* angle last written to the servo, -1 before any write
    currentServoAngle, \* the global of that name
    btStarted,         \* SerialBT.begin succeeded
    hasClient,         \* what SerialBT.hasClient() reads
    rx,                \* received lines SerialBT has buffered, oldest first
    tx,                \* writes handed to SerialBT, oldest first
    command,           \* the local of processCommands, trimmed
    fb,                \* the frame buffer loop() holds
    frameSize,         \* the local of loop()
    fbOut,             \* frame buffers obtained and not yet returned
    log,               \* lines processCommands has read, oldest first
    everActive,        \* some top-of-cycle peer check has read true
    cmdRan,            \* processCommands has run in the current cycle
    fails,             \* consecutive cycles so far whose capture failed
    base,              \* frame headers on tx when that run of cycles began
    prevIdle           \* the cycle before the current one found no client

vars == << pc, err, servoAttached, servoPos, currentServoAngle, btStarted,
           hasClient, rx, tx, command, fb, frameSize, fbOut, log,
           everActive, cmdRan, fails, base, prevIdle >>

\* the variables of the servo
servoVars == << servoAttached, servoPos, currentServoAngle >>

\* the locals of one pass of loop()
cycleVars == << command, fb, frameSize, fbOut, cmdRan >>

\* number of frame headers on the outbound stream
Hdrs(s) == Cardinality({ i \in 1..Len(s) : s[i].kind = "hdr" })

Min(a, b) == IF a < b THEN a ELSE b

Init ==
    /\ pc = "initCamera"
    /\ err = "unset"
    /\ servoAttached = FALSE
    /\ servoPos = -1
    /\ currentServoAngle = 90
    /\ btStarted = FALSE
    /\ hasClient = FALSE
    /\ rx = << >>
    /\ tx = << >>
    /\ command = NoCommand
    /\ fb = NoFb
    /\ frameSize = 0
    /\ fbOut = 0
    /\ log = << >>
    /\ everActive = FALSE
    /\ cmdRan = FALSE
    /\ fails = 0
    /\ base = 0
    /\ prevIdle = FALSE

(* ------------------------------ setup() -------------------------------- *)
\* initCamera() that reports the failure and returns
InitCameraNoHalt(e) ==
    /\ pc = "initCamera"
    /\ err' = e
    /\ pc' = "servoInit"
    /\ UNCHANGED << prevIdle, servoVars, btStarted, hasClient, rx, tx, cycleVars, log,
                    everActive, fails, base >>

\* initCamera(): a failed esp_camera_init ends in while (true) { delay(1000); }
InitCamera(e) ==
    /\ pc = "initCamera"
    /\ err' = e
    /\ pc' = IF e # "ESP_OK" THEN "halt" ELSE "servoInit"
    /\ UNCHANGED << prevIdle, servoVars, btStarted, hasClient, rx, tx, cycleVars, log,
                    everActive, fails, base >>

\* myServo.attach(servoPin); myServo.write(currentServoAngle);
ServoInit ==
    /\ pc = "servoInit"
    /\ servoAttached' = TRUE
    /\ servoPos' = currentServoAngle
    /\ pc' = "btBegin"
    /\ UNCHANGED << prevIdle, err, currentServoAngle, btStarted, hasClient, rx, tx,
                    cycleVars, log, everActive, fails, base >>

\* setup() that halts when SerialBT.begin fails
BtBeginHaltOnFailure(ok) ==
    /\ pc = "btBegin"
    /\ btStarted' = ok
    /\ pc' = IF ok THEN "loop" ELSE "halt"
    /\ UNCHANGED << prevIdle, err, servoVars, hasClient, rx, tx, cycleVars, log,
                    everActive, fails, base >>

\* SerialBT.begin("ESP32_CAM_BT"): either outcome is only reported
BtBegin(ok) ==
    /\ pc = "btBegin"
    /\ btStarted' = ok
    /\ pc' = "loop"
    /\ UNCHANGED << prevIdle, err, servoVars, hasClient, rx, tx, cycleVars, log,
                    everActive, fails, base >>

(* ------------------------------- peer ---------------------------------- *)
\* a peer connects to the started Bluetooth serial service
Attach ==
    /\ btStarted
    /\ ~hasClient
    /\ hasClient' = TRUE
    /\ UNCHANGED << prevIdle, pc, err, servoVars, btStarted, rx, tx, cycleVars, log,
                    everActive, fails, base >>

\* the peer disconnects; what it sent stays buffered
Detach ==
    /\ hasClient
    /\ hasClient' = FALSE
    /\ UNCHANGED << prevIdle, pc, err, servoVars, btStarted, rx, tx, cycleVars, log,
                    everActive, fails, base >>

\* the attached peer sends one line
Receive(line) ==
    /\ hasClient
    /\ Len(log) + Len(rx) < MaxLines
    /\ rx' = Append(rx, line)
    /\ UNCHANGED << prevIdle, pc, err, servoVars, btStarted, hasClient, tx, cycleVars,
                    log, everActive, fails, base >>

(* ------------------------------- loop() -------------------------------- *)
\* the peer check without its return: the cycle goes on without a client
CheckClientNoReturn ==
    /\ pc = "loop"
    /\ pc' = "processCommands"
    /\ everActive' = hasClient
    /\ base' = IF fails = 0 THEN Hdrs(tx) ELSE base
    /\ UNCHANGED << prevIdle, err, servoVars, btStarted, hasClient, rx, tx, cycleVars,
                    log, fails >>

\* if (!SerialBT.hasClient()) { ...; delay(500); return; }
CheckClient ==
    /\ pc = "loop"
    /\ IF ~hasClient
       THEN /\ pc' = "idleDelay"
            /\ fails' = 0
            /\ UNCHANGED << everActive, base >>
       ELSE /\ pc' = "processCommands"
            /\ everActive' = TRUE
            /\ base' = IF fails = 0 THEN Hdrs(tx) ELSE base
            /\ UNCHANGED fails
    /\ UNCHANGED << prevIdle, err, servoVars, btStarted, hasClient, rx, tx, cycleVars, log >>

\* the idle path that also throws away what is buffered
IdleDelayFlush ==
    /\ pc = "idleDelay"
    /\ prevIdle' = TRUE
    /\ rx' = << >>
    /\ pc' = "loop"
    /\ UNCHANGED << err, servoVars, btStarted, hasClient, tx, cycleVars,
                    log, everActive, fails, base >>

\* delay(500); return;
IdleDelay ==
    /\ pc = "idleDelay"
    /\ prevIdle' = TRUE
    /\ pc' = "loop"
    /\ UNCHANGED << err, servoVars, btStarted, hasClient, rx, tx, cycleVars,
                    log, everActive, fails, base >>

\* the else branch with its report sent to the peer instead of Serial
UnknownCommandReplied(line) ==
    /\ tx' = Append(tx, [kind |-> "ack", data |-> line, n |-> Len(line)])
    /\ UNCHANGED servoVars

\* the else branch: the line is reported on Serial only
UnknownCommand(line) ==
    UNCHANGED << servoVars, tx >>

\* the recognized branch acknowledging the requested value, not the applied one
SetServoAckRequested(line) ==
    LET angle == constrain(ToInt(Substring(line, 4)), MinAngle, MaxAngle)
    IN  /\ servoPos' = angle
        /\ currentServoAngle' = angle
        /\ tx' = Append(tx, AckWrite(ToInt(Substring(line, 4))))
        /\ UNCHANGED servoAttached

\* the recognized branch skipped when the angle is the current one
SetServoIfChanged(line) ==
    LET angle == constrain(ToInt(Substring(line, 4)), MinAngle, MaxAngle)
    IN  IF angle = currentServoAngle
        THEN UNCHANGED << servoVars, tx >>
        ELSE /\ servoPos' = angle
             /\ currentServoAngle' = angle
             /\ tx' = Append(tx, AckWrite(angle))
             /\ UNCHANGED servoAttached

\* the recognized branch without the assignment to currentServoAngle
SetServoNoTrack(line) ==
    LET angle == constrain(ToInt(Substring(line, 4)), MinAngle, MaxAngle)
    IN  /\ servoPos' = angle
        /\ tx' = Append(tx, AckWrite(angle))
        /\ UNCHANGED << servoAttached, currentServoAngle >>

\* the body of if (command.startsWith("S14:")) for the trimmed line
SetServo(line) ==
    LET angle == constrain(ToInt(Substring(line, 4)), MinAngle, MaxAngle)
    IN  /\ servoPos' = angle
        /\ currentServoAngle' = angle
        /\ tx' = Append(tx, AckWrite(angle))
        /\ UNCHANGED servoAttached

\* processCommands() taking the newest buffered line instead of the oldest
ProcessCommandsNewest ==
    /\ pc = "processCommands"
    /\ IF rx # << >>
       THEN /\ command' = Trim(rx[Len(rx)])
            /\ rx' = SubSeq(rx, 1, Len(rx) - 1)
            /\ log' = Append(log, rx[Len(rx)])
            /\ IF StartsWith(command', S14)
               THEN SetServo(command')
               ELSE UnknownCommand(command')
       ELSE UNCHANGED << command, rx, log, servoVars, tx >>
    /\ cmdRan' = TRUE
    /\ pc' = "fb_get"
    /\ UNCHANGED << prevIdle, err, btStarted, hasClient, fb, frameSize, fbOut,
                    everActive, fails, base >>

\* processCommands(): one call reads at most one line
ProcessCommands ==
    /\ pc = "processCommands"
    /\ IF rx # << >>
       THEN /\ command' = Trim(Head(rx))
            /\ rx' = Tail(rx)
            /\ log' = Append(log, Head(rx))
            /\ IF StartsWith(command', S14)
               THEN SetServo(command')
               ELSE UnknownCommand(command')
       ELSE UNCHANGED << command, rx, log, servoVars, tx >>
    /\ cmdRan' = TRUE
    /\ pc' = "fb_get"
    /\ UNCHANGED << prevIdle, err, btStarted, hasClient, fb, frameSize, fbOut,
                    everActive, fails, base >>

\* esp_camera_fb_get() returns a frame of len bytes
CaptureOk(len) ==
    /\ pc = "fb_get"
    /\ fbOut < fb_count
    /\ Hdrs(tx) < MaxFrames
    /\ fb' = [len |-> len]
    /\ fbOut' = fbOut + 1
    /\ pc' = "writeHeader"
    /\ UNCHANGED << prevIdle, err, servoVars, btStarted, hasClient, rx, tx, command,
                    frameSize, log, everActive, cmdRan, fails, base >>

\* a failed capture that also drops the buffered lines
CaptureFailFlush ==
    /\ pc = "fb_get"
    /\ fails' = Min(fails + 1, MaxFails)
    /\ rx' = << >>
    /\ pc' = "failDelay"
    /\ UNCHANGED << prevIdle, err, servoVars, btStarted, hasClient, tx, cycleVars,
                    log, everActive, base >>

\* a failed capture that gives up after a second failure in a row
CaptureFailCeiling ==
    /\ pc = "fb_get"
    /\ fails' = Min(fails + 1, MaxFails)
    /\ pc' = IF fails >= 1 THEN "halt" ELSE "failDelay"
    /\ UNCHANGED << prevIdle, err, servoVars, btStarted, hasClient, rx, tx, cycleVars,
                    log, everActive, base >>

\* esp_camera_fb_get() returns NULL: report, delay(1000), return
CaptureFail ==
    /\ pc = "fb_get"
    /\ fails' = Min(fails + 1, MaxFails)
    /\ pc' = "failDelay"
    /\ UNCHANGED << prevIdle, err, servoVars, btStarted, hasClient, rx, tx, cycleVars,
                    log, everActive, base >>

\* the failure path that also moves the servo back to its default
FailDelayRecenter ==
    /\ pc = "failDelay"
    /\ command' = NoCommand
    /\ cmdRan' = FALSE
    /\ prevIdle' = FALSE
    /\ servoPos' = 90
    /\ currentServoAngle' = 90
    /\ pc' = "loop"
    /\ UNCHANGED << err, servoAttached, btStarted, hasClient, rx, tx, fb,
                    frameSize, fbOut, log, everActive, fails, base >>

\* the delay(1000) of a failed capture, then the return
FailDelay ==
    /\ pc = "failDelay"
    /\ command' = NoCommand
    /\ cmdRan' = FALSE
    /\ prevIdle' = FALSE
    /\ pc' = "loop"
    /\ UNCHANGED << err, servoVars, btStarted, hasClient, rx, tx, fb,
                    frameSize, fbOut, log, everActive, fails, base >>

\* uint32_t frameSize = fb->len; SerialBT.write((uint8_t*)&frameSize, 4);
WriteHeader ==
    /\ pc = "writeHeader"
    /\ frameSize' = fb.len
    /\ tx' = Append(tx, HeaderWrite(frameSize'))
    /\ pc' = "writePayload"
    /\ UNCHANGED << prevIdle, err, servoVars, btStarted, hasClient, rx, command, fb,
                    fbOut, log, everActive, cmdRan, fails, base >>

\* the payload written only while a client is still attached
WritePayloadIfClient ==
    /\ pc = "writePayload"
    /\ tx' = IF hasClient THEN Append(tx, PayloadWrite(frameSize)) ELSE tx
    /\ pc' = "fb_return"
    /\ UNCHANGED << prevIdle, err, servoVars, btStarted, hasClient, rx, cycleVars, log,
                    everActive, fails, base >>

\* SerialBT.write(fb->buf, frameSize);
WritePayload ==
    /\ pc = "writePayload"
    /\ tx' = Append(tx, PayloadWrite(frameSize))
    /\ pc' = "fb_return"
    /\ UNCHANGED << prevIdle, err, servoVars, btStarted, hasClient, rx, cycleVars, log,
                    everActive, fails, base >>

\* the cycle ending without esp_camera_fb_return
FbReturnMissing ==
    /\ pc = "fb_return"
    /\ pc' = "delay"
    /\ UNCHANGED << prevIdle, err, servoVars, btStarted, hasClient, rx, tx,
                    cycleVars, log, everActive, fails, base >>

\* the buffer returned and another frame captured in the same cycle
FbReturnRecapture ==
    /\ pc = "fb_return"
    /\ fb' = NoFb
    /\ fbOut' = fbOut - 1
    /\ pc' = "fb_get"
    /\ UNCHANGED << prevIdle, err, servoVars, btStarted, hasClient, rx, tx, command,
                    frameSize, log, everActive, cmdRan, fails, base >>

\* esp_camera_fb_return(fb);
FbReturn ==
    /\ pc = "fb_return"
    /\ fb' = NoFb
    /\ fbOut' = fbOut - 1
    /\ pc' = "delay"
    /\ UNCHANGED << prevIdle, err, servoVars, btStarted, hasClient, rx, tx, command,
                    frameSize, log, everActive, cmdRan, fails, base >>

\* delay(1000) after a frame, then loop() returns
FrameDelay ==
    /\ pc = "delay"
    /\ command' = NoCommand
    /\ frameSize' = 0
    /\ cmdRan' = FALSE
    /\ fails' = 0
    /\ prevIdle' = FALSE
    /\ pc' = "loop"
    /\ UNCHANGED << err, servoVars, btStarted, hasClient, rx, tx, fb, fbOut,
                    log, everActive, base >>

\* the peer reads what the firmware has written; at the top of a cycle, so
\* that whole frames are taken.  The lines read so far are forgotten with
\* their acknowledgments.
PeerRead ==
    /\ pc = "loop"
    /\ hasClient
    /\ tx # << >>
    /\ tx' = << >>
    /\ log' = << >>
    /\ base' = 0
    /\ UNCHANGED << prevIdle, pc, err, servoVars, btStarted, hasClient, rx, cycleVars,
                    everActive, fails >>

(* --------------------------- specifications ---------------------------- *)
\* the steps of the firmware
Program ==
    \/ \E e \in {"ESP_OK", "ESP_FAIL"} : InitCamera(e)
    \/ ServoInit
    \/ \E ok \in BOOLEAN : BtBegin(ok)
    \/ CheckClient
    \/ IdleDelay
    \/ ProcessCommands
    \/ \E len \in FrameLens : CaptureOk(len)
    \/ CaptureFail
    \/ FailDelay
    \/ WriteHeader
    \/ WritePayload
    \/ FbReturn
    \/ FrameDelay

\* the steps of the peer
Peer ==
    \/ Attach
    \/ Detach
    \/ \E line \in Lines : Receive(line)

Next == Program \/ Peer

Spec == Init /\ [][Next]_vars

\* the firmware keeps running, the camera delivers a frame again and again
\* when asked often enough, and the peer keeps reading
LiveNext == Next \/ PeerRead

LiveSpec ==
    /\ Init
    /\ [][LiveNext]_vars
    /\ WF_vars(Program)
    /\ SF_vars(\E len \in FrameLens : CaptureOk(len))
    /\ SF_vars(PeerRead)

(* ------------------------- helpers of the claims ----------------------- *)
\* the trimmed line is a servo command
Recognized(line) == StartsWith(Trim(line), S14)

\* the integer a servo command carries
Requested(line) == ToInt(Substring(Trim(line), 4))

\* a 4-byte header read as a little-endian unsigned integer
DecodeLE(b) == b[1] + 256 * b[2] + 65536 * b[3] + 16777216 * b[4]

Last(s) == s[Len(s)]

\* the writes of one kind on the outbound stream, in order
RECURSIVE OfKind(_, _)
OfKind(s, k) ==
    IF s = << >> THEN << >>
    ELSE IF Head(s).kind = k THEN << Head(s) >> \o OfKind(Tail(s), k)
    ELSE OfKind(Tail(s), k)

\* the recognized lines among those read, in order
RECURSIVE RecognizedOf(_)
RecognizedOf(s) ==
    IF s = << >> THEN << >>
    ELSE IF Recognized(Head(s)) THEN << Head(s) >> \o RecognizedOf(Tail(s))
    ELSE RecognizedOf(Tail(s))

\* a line was processed in the current cycle and it was a servo command
ServoCommandDone == command # NoCommand /\ StartsWith(command, S14)

Line181 == S14 \o << "1", "8", "1" >>
LineMinus5 == S14 \o << "-", "5" >>
LineHi == << "h", "i" >>

(* -------------------------------- C1 ----------------------------------- *)
\* C1: the command step of an Active cycle leaves no buffered line behind:
\* when the capture step begins, every line that was buffered at the start
\* of the command step has been read.
C1_DrainsAllBuffered ==
    [][(pc = "processCommands" /\ pc' = "fb_get") => rx' = << >>]_vars

(* -------------------------------- C2 ----------------------------------- *)
\* C2: after a line "S14:<n>" has been processed, currentServoAngle is n
\* clamped into 0..180 (181 gives 180, -5 gives 0), the servo was moved
\* there and the request was acknowledged, never rejected.
C2_AngleIsClamped ==
    ServoCommandDone =>
        LET n == ToInt(Substring(command, 4))
        IN  /\ currentServoAngle = (IF n < 0 THEN 0 ELSE IF n > 180 THEN 180 ELSE n)
            /\ (command = Line181 => currentServoAngle = 180)
            /\ (command = LineMinus5 => currentServoAngle = 0)
            /\ servoPos = currentServoAngle
            /\ OfKind(tx, "ack") # << >>

C2_Witness ==
    /\ pc = "fb_get"
    /\ command = Line181
    /\ currentServoAngle = 180

(* -------------------------------- C3 ----------------------------------- *)
\* C3: a cycle whose peer check reads false writes nothing, reads no line
\* and captures nothing, whatever is buffered; and as long as no peer check
\* has read true nothing has been written at all.
C3_IdleCycleStep ==
    \/ pc = "loop" /\ ~hasClient
    \/ pc = "idleDelay"

C3_IdleCycleDoesNothing ==
    /\ [][C3_IdleCycleStep =>
            /\ pc' \in {"loop", "idleDelay"}
            /\ tx' = tx
            /\ log' = log
            /\ Len(rx') >= Len(rx)
            /\ SubSeq(rx', 1, Len(rx)) = rx
            /\ fb' = fb /\ fbOut' = fbOut
            /\ servoVars' = servoVars]_vars
    /\ [](~everActive => tx = << >> /\ log = << >> /\ fbOut = 0)

C3_Witness ==
    /\ pc = "idleDelay"
    /\ ~hasClient
    /\ Len(rx) = MaxLines
    /\ tx = << >>

(* -------------------------------- C4 ----------------------------------- *)
\* C4: on the outbound stream every header is directly followed by the
\* payload of the length it announces, nothing else in between; a header
\* without its payload exists only while the program is about to write the
\* payload, and it then writes it even if the peer has detached.
C4_Framed ==
    \A i \in 1..Len(tx) :
        /\ tx[i].kind = "hdr" =>
              IF i = Len(tx)
              THEN pc = "writePayload"
              ELSE /\ tx[i + 1].kind = "payload"
                   /\ tx[i + 1].n = DecodeLE(tx[i].data)
        /\ tx[i].kind = "payload" => i > 1 /\ tx[i - 1].kind = "hdr"

C4_FrameIsAtomic ==
    /\ []C4_Framed
    /\ [][pc = "writePayload" =>
            \/ pc' = "writePayload" /\ tx' = tx
            \/ /\ pc' = "fb_return"
               /\ tx' = Append(tx, [kind |-> "payload", data |-> << >>,
                                    n |-> DecodeLE(Last(tx).data)])]_vars

C4_Witness ==
    /\ pc = "writePayload"
    /\ ~hasClient
    /\ Last(tx).kind = "hdr"
    /\ OfKind(tx, "ack") # << >>

(* -------------------------------- C5 ----------------------------------- *)
\* C5: the bytes written for a captured frame of N bytes are 4 + N bytes,
\* and the first 4, read as a little-endian unsigned integer, are N.
C5_HeaderRoundTrip ==
    pc = "fb_return" =>
        /\ Len(tx) >= 2
        /\ LET h == tx[Len(tx) - 1]
               p == tx[Len(tx)]
           IN  /\ h.kind = "hdr" /\ p.kind = "payload"
               /\ Len(h.data) = 4 /\ h.n = 4
               /\ \A k \in 1..4 : h.data[k] \in 0..255
               /\ h.n + p.n = 4 + fb.len
               /\ DecodeLE(h.data) = fb.len

C5_Witness ==
    /\ pc = "fb_return"
    /\ fb.len = 16909060
    /\ tx[Len(tx) - 1].data = << 4, 3, 2, 1 >>

(* -------------------------------- C6 ----------------------------------- *)
\* C6: processing a line that does not start with "S14:" writes nothing,
\* leaves the servo and currentServoAngle alone and takes just that line
\* off the buffer; a servo command read after it is dispatched as usual.
C6_UnknownLineIgnored ==
    /\ [][(pc = "processCommands" /\ pc' # pc /\ rx # << >> /\ ~Recognized(Head(rx))) =>
            /\ tx' = tx
            /\ servoVars' = servoVars
            /\ rx' = Tail(rx)
            /\ pc' = "fb_get"]_vars
    /\ []((/\ ServoCommandDone
           /\ Len(log) >= 2
           /\ ~Recognized(log[Len(log) - 1])) =>
              /\ currentServoAngle = constrain(Requested(Last(log)), 0, 180)
              /\ servoPos = currentServoAngle
              /\ Len(OfKind(tx, "ack")) = Len(RecognizedOf(log)))

C6_Witness ==
    /\ pc = "fb_get"
    /\ Len(log) = 2
    /\ log[1] = LineHi
    /\ command = Line181
    /\ currentServoAngle = 180
    /\ Len(OfKind(tx, "ack")) = 1

(* -------------------------------- C7 ----------------------------------- *)
\* C7: the acknowledgments on the stream are as many as the servo commands
\* read so far, and the one of the command just processed reads
\* "Servo set to <a>" with <a> the applied angle, currentServoAngle.
Ack180 ==
    << "S", "e", "r", "v", "o", " ", "s", "e", "t", " ", "t", "o", " ",
       "1", "8", "0", "\r", "\n" >>

C7_OneAckPerCommand ==
    /\ Len(OfKind(tx, "ack")) = Len(RecognizedOf(log))
    /\ ServoCommandDone =>
          LET a == Last(OfKind(tx, "ack"))
          IN  /\ a.data = AckPrefix \o IntToText(currentServoAngle) \o << "\r", "\n" >>
              /\ a.n = Len(a.data)
              /\ (command = Line181 => a.data = Ack180)

C7_Witness ==
    /\ pc = "fb_get"
    /\ command = Line181
    /\ Len(log) = 2
    /\ Recognized(log[1])
    /\ Len(OfKind(tx, "ack")) = 2
    /\ Last(OfKind(tx, "ack")).data = Ack180

(* -------------------------------- C8 ----------------------------------- *)
\* C8: through a run of cycles whose captures fail no frame is written,
\* the cycle whose capture then succeeds writes exactly one, the command
\* step has run in each of these cycles before the capture was attempted,
\* and no step but the command step takes a line off the buffer.
C8_AfterCommandStep ==
    {"fb_get", "failDelay", "writeHeader", "writePayload", "fb_return", "delay"}

C8_FailedCapturesCostNothing ==
    /\ [](pc \in C8_AfterCommandStep => cmdRan)
    /\ []((fails > 0 /\ pc \in {"loop", "processCommands", "fb_get", "failDelay", "writeHeader"}) =>
            /\ Hdrs(tx) = base
            /\ Len(OfKind(tx, "payload")) = base)
    /\ []((fails > 0 /\ pc \in {"fb_return", "delay"}) =>
            /\ Hdrs(tx) = base + 1
            /\ Len(OfKind(tx, "payload")) = base + 1)
    /\ [][\/ log' \o rx' = log \o rx
          \/ \E line \in Lines : log' \o rx' = Append(log \o rx, line)]_vars
    /\ [][(pc \in {"fb_get", "failDelay"}) =>
            (log' = log /\ SubSeq(rx', 1, Len(rx)) = rx)]_vars

C8_Witness ==
    /\ pc = "delay"
    /\ fails = 2
    /\ hasClient
    /\ Hdrs(tx) = base + 1
    /\ Len(log) = MaxLines

(* -------------------------------- C9 ----------------------------------- *)
\* C9: after a failed camera initialization the program is halted for good:
\* no step leaves the halt, the servo is neither attached nor moved,
\* Bluetooth is not started, and nothing is read, written or captured.
C9_CameraFailureHalts ==
    /\ [](err = "ESP_FAIL" =>
            /\ pc = "halt"
            /\ ~servoAttached /\ servoPos = -1 /\ currentServoAngle = 90
            /\ ~btStarted /\ ~hasClient
            /\ rx = << >> /\ tx = << >> /\ log = << >>
            /\ fbOut = 0 /\ ~everActive /\ ~cmdRan)
    /\ [](pc = "halt" => err = "ESP_FAIL")
    /\ [][pc = "halt" => UNCHANGED vars]_vars

C9_Witness ==
    /\ pc = "halt"
    /\ err = "ESP_FAIL"

(* -------------------------------- C10 ---------------------------------- *)
\* C10: a failed capture never halts the program, however many have failed
\* in a row; and if from some point on the peer stays attached, then, the
\* camera delivering a frame infinitely often when asked, frames are
\* written infinitely often.
C10_CaptureFailureNotFatal ==
    /\ [](err = "ESP_OK" => pc # "halt")
    /\ [](fails > 0 => pc \in {"loop", "idleDelay", "processCommands", "fb_get",
                               "failDelay", "writeHeader", "writePayload",
                               "fb_return", "delay"})
    /\ (<>[]hasClient => []<>(pc = "fb_return" /\ Last(tx).kind = "payload"))

C10_Witness ==
    /\ pc = "fb_return"
    /\ fails = MaxFails
    /\ Last(tx).kind = "payload"

(* -------------------------------- C11 ---------------------------------- *)
\* C11: the cycle after an idle one whose peer check reads true is Active:
\* nothing buffered was dropped while idle, the command step reads the
\* oldest buffered line and a capture is attempted; a cycle after an Active
\* one whose peer check reads false does neither.
C11_PeerCheckDecidesCycle ==
    /\ [][(pc = "loop" /\ pc' # pc /\ prevIdle /\ hasClient) =>
            (pc' = "processCommands" /\ rx' = rx /\ log' = log)]_vars
    /\ [][(pc = "idleDelay") =>
            (log' = log /\ Len(rx') >= Len(rx) /\ SubSeq(rx', 1, Len(rx)) = rx)]_vars
    /\ [][(pc = "processCommands" /\ pc' # pc /\ prevIdle) =>
            /\ pc' = "fb_get"
            /\ rx # << >> => (log' = Append(log, Head(rx)) /\ rx' = Tail(rx))]_vars
    /\ [][(pc = "fb_get" /\ pc' # pc) => pc' \in {"writeHeader", "failDelay"}]_vars
    /\ [][(pc = "loop" /\ pc' # pc /\ ~prevIdle /\ everActive /\ ~hasClient) =>
            (pc' = "idleDelay" /\ tx' = tx /\ rx' = rx /\ log' = log /\ fbOut' = fbOut)]_vars
    /\ [](pc = "idleDelay" => ~cmdRan /\ fbOut = 0 /\ command = NoCommand)

C11_Witness ==
    /\ pc = "fb_get"
    /\ prevIdle
    /\ ServoCommandDone
    /\ Len(log) = 1
    /\ cmdRan

(* -------------------------------- C12 ---------------------------------- *)
\* C12: processing a servo command whose clamped angle is already the
\* current one leaves the servo where it is and still writes one
\* acknowledgment; "S14:90" at 90 is acknowledged "Servo set to 90", and
\* the same line read twice in a row gives two equal acknowledgments.
Line90 == S14 \o << "9", "0" >>

Ack90 ==
    << "S", "e", "r", "v", "o", " ", "s", "e", "t", " ", "t", "o", " ",
       "9", "0", "\r", "\n" >>

C12_RepeatIsIdempotent ==
    /\ [][(/\ pc = "processCommands" /\ pc' # pc
           /\ rx # << >> /\ Recognized(Head(rx))
           /\ currentServoAngle = constrain(Requested(Head(rx)), 0, 180)) =>
            /\ servoVars' = servoVars
            /\ Len(tx') = Len(tx) + 1
            /\ Last(tx').kind = "ack"
            /\ Last(tx').data = AckPrefix \o IntToText(currentServoAngle) \o << "\r", "\n" >>
            /\ (Head(rx) = Line90 => Last(tx').data = Ack90)]_vars
    /\ []((ServoCommandDone /\ Len(log) >= 2 /\ log[Len(log) - 1] = Last(log)) =>
            LET a == OfKind(tx, "ack")
            IN  /\ Len(a) >= 2
                /\ a[Len(a)] = a[Len(a) - 1]
                /\ servoPos = currentServoAngle)

C12_Witness ==
    /\ pc = "fb_get"
    /\ log = << Line90, Line90 >>
    /\ currentServoAngle = 90
    /\ servoPos = 90
    /\ Len(OfKind(tx, "ack")) = 2
    /\ Last(tx).data = Ack90

(* -------------------------------- C13 ---------------------------------- *)
\* C13: a failed SerialBT.begin does not halt: setup() ends and loop()
\* runs; and while no peer check has read true after it, every cycle is
\* idle, nothing is written, no line is read and no capture is attempted.
C13_InLoop ==
    {"loop", "idleDelay", "processCommands", "fb_get", "failDelay",
     "writeHeader", "writePayload", "fb_return", "delay"}

C13_TransportFailureIsDegraded ==
    /\ [][(pc = "btBegin" /\ pc' # pc) => pc' = "loop"]_vars
    /\ [](pc = "halt" => ~servoAttached)
    /\ []((pc \in C13_InLoop /\ ~btStarted /\ ~everActive) =>
            /\ pc \in {"loop", "idleDelay"}
            /\ tx = << >> /\ log = << >>
            /\ fbOut = 0 /\ ~cmdRan
            /\ servoAttached /\ servoPos = 90)

C13_Witness ==
    /\ pc = "idleDelay"
    /\ ~btStarted
    /\ prevIdle
    /\ servoAttached
    /\ tx = << >>

(* -------------------------------- C14 ---------------------------------- *)
\* C14: currentServoAngle is always within 0..180, once the servo is
\* attached the angle last written to it is currentServoAngle, and before
\* any servo command has been read the angle is the default 90.
C14_AngleInRange ==
    /\ currentServoAngle >= 0 /\ currentServoAngle <= 180
    /\ servoAttached => servoPos = currentServoAngle
    /\ ~servoAttached => (servoPos = -1 /\ currentServoAngle = 90)
    /\ RecognizedOf(log) = << >> => currentServoAngle = 90

C14_Witness ==
    /\ pc = "delay"
    /\ log # << >>
    /\ Last(log) = LineMinus5
    /\ currentServoAngle = 0
    /\ servoPos = 0
    /\ ~hasClient

(* -------------------------------- C15 ---------------------------------- *)
\* C15: a captured frame buffer is held exactly from the capture to the
\* esp_camera_fb_return of the same cycle: at most one is outstanding, and
\* none at a cycle boundary nor when the next capture is attempted.
C15_BufferReturned ==
    /\ fbOut >= 0 /\ fbOut <= 1 /\ fbOut <= fb_count
    /\ fbOut = 1 <=> pc \in {"writeHeader", "writePayload", "fb_return"}
    /\ fbOut = 0 <=> fb = NoFb
    /\ pc \in {"loop", "idleDelay", "processCommands", "fb_get", "failDelay", "delay"} => fbOut = 0

C15_Witness ==
    /\ pc = "delay"
    /\ fbOut = 0
    /\ fb = NoFb
    /\ Hdrs(tx) = 1
    /\ Last(tx).kind = "payload"

(* -------------------------------- C16 ---------------------------------- *)
\* C16: an Active cycle goes through the command step, one capture
\* attempt and, on success, the header write, the payload write and the
\* release, in this order and each once; so an acknowledgment of the cycle
\* precedes the cycle's frame header and a cycle writes at most one frame.
C16_Order ==
    { << "loop", "idleDelay" >>, << "loop", "processCommands" >>,
      << "idleDelay", "loop" >>,
      << "processCommands", "fb_get" >>,
      << "fb_get", "failDelay" >>, << "fb_get", "writeHeader" >>,
      << "failDelay", "loop" >>,
      << "writeHeader", "writePayload" >>,
      << "writePayload", "fb_return" >>,
      << "fb_return", "delay" >>,
      << "delay", "loop" >> }

C16_CycleOrder ==
    /\ [][(pc' # pc /\ pc \in C13_InLoop) => << pc, pc' >> \in C16_Order]_vars
    /\ [][(tx' # tx) =>
            /\ Len(tx') = Len(tx) + 1
            /\ SubSeq(tx', 1, Len(tx)) = tx
            /\ \/ pc = "processCommands" /\ Last(tx').kind = "ack"
               \/ pc = "writeHeader" /\ Last(tx').kind = "hdr"
               \/ pc = "writePayload" /\ Last(tx').kind = "payload"]_vars
    /\ [][(fbOut' # fbOut) =>
            \/ pc = "fb_get" /\ fbOut' = fbOut + 1
            \/ pc = "fb_return" /\ fbOut' = fbOut - 1]_vars
    /\ []((ServoCommandDone /\ pc = "writePayload") =>
            /\ Len(tx) >= 2
            /\ tx[Len(tx) - 1].kind = "ack" /\ tx[Len(tx)].kind = "hdr")
    /\ []((ServoCommandDone /\ pc \in {"fb_return", "delay"}) =>
            /\ Len(tx) >= 3
            /\ tx[Len(tx) - 2].kind = "ack"
            /\ tx[Len(tx) - 1].kind = "hdr"
            /\ tx[Len(tx)].kind = "payload")

C16_Witness ==
    /\ pc = "delay"
    /\ ServoCommandDone
    /\ Len(tx) = 3
    /\ tx[1].kind = "ack" /\ tx[2].kind = "hdr" /\ tx[3].kind = "payload"

(* -------------------------------- C17 ---------------------------------- *)
\* C17: a line "S14:" with an empty or wholly non-numeric body sets the
\* angle to 0 and is acknowledged "Servo set to 0"; a body that starts with
\* digits and goes on with other characters ("45x") applies the digits.
Line45x == S14 \o << "4", "5", "x" >>
LineAbc == S14 \o << "a", "b", "c" >>

Ack0 ==
    << "S", "e", "r", "v", "o", " ", "s", "e", "t", " ", "t", "o", " ",
       "0", "\r", "\n" >>

Ack45 ==
    << "S", "e", "r", "v", "o", " ", "s", "e", "t", " ", "t", "o", " ",
       "4", "5", "\r", "\n" >>

C17_PermissiveParse ==
    /\ (ServoCommandDone /\ command = S14) =>
          /\ currentServoAngle = 0 /\ servoPos = 0
          /\ Last(OfKind(tx, "ack")).data = Ack0
    /\ (ServoCommandDone /\ command = Line45x) =>
          /\ currentServoAngle = 45 /\ servoPos = 45
          /\ Last(OfKind(tx, "ack")).data = Ack45
    /\ Recognized(LineAbc)
    /\ constrain(ToInt(Substring(Trim(LineAbc), 4)), MinAngle, MaxAngle) = 0
    /\ AckText(constrain(ToInt(Substring(Trim(LineAbc), 4)), MinAngle, MaxAngle)) = Ack0

C17_Witness ==
    /\ pc = "fb_get"
    /\ Len(log) = 2
    /\ Trim(log[1]) = S14
    /\ command = Line45x
    /\ currentServoAngle = 45
    /\ OfKind(tx, "ack") = << AckWrite(0), AckWrite(45) >>

(* -------------------------------- C18 ---------------------------------- *)
\* C18: the servo and currentServoAngle change only in setup()'s servo
\* initialization and in the command step when it reads a servo command;
\* the peer check, the idle path, the capture, both writes, the release
\* and the delays leave them as they are.
C18_OnlyCommandsMoveServo ==
    /\ [][(servoVars' # servoVars) =>
            \/ pc = "servoInit"
            \/ pc = "processCommands" /\ rx # << >> /\ Recognized(Head(rx))]_vars
    /\ [][(pc \in {"loop", "idleDelay", "fb_get", "failDelay", "writeHeader",
                   "writePayload", "fb_return", "delay"}) =>
            servoVars' = servoVars]_vars

C18_Witness ==
    /\ pc = "idleDelay"
    /\ currentServoAngle = 180
    /\ servoPos = 180
    /\ Hdrs(tx) = 1
    /\ command = NoCommand

(* -------------------------------- C19 ---------------------------------- *)
\* C19: lines are read oldest first, each once, and only by the command
\* step of a cycle whose peer check read true; so currentServoAngle is the
\* clamped value of the last servo command read, and the acknowledgments
\* are those of the servo commands read, in their order.
C19_Acks(r) == [i \in 1..Len(r) |-> AckWrite(constrain(Requested(r[i]), 0, 180))]

C19_FifoOnce ==
    /\ [][\/ log' \o rx' = log \o rx
          \/ \E line \in Lines : log' \o rx' = (log \o rx) \o << line >>]_vars
    /\ [][(log' # log \/ Len(rx') < Len(rx)) =>
            /\ pc = "processCommands"
            /\ rx # << >>
            /\ log' = Append(log, Head(rx))
            /\ rx' = Tail(rx)
            /\ command' = Trim(Head(rx))]_vars
    /\ [][(pc' = "processCommands" /\ pc # pc') => (pc = "loop" /\ hasClient)]_vars
    /\ [](log # << >> => everActive)
    /\ [](RecognizedOf(log) # << >> =>
            currentServoAngle = constrain(Requested(Last(RecognizedOf(log))), 0, 180))
    /\ [](OfKind(tx, "ack") = C19_Acks(RecognizedOf(log)))

C19_Witness ==
    /\ pc = "fb_get"
    /\ log = << Line181, LineMinus5 >>
    /\ currentServoAngle = 0
    /\ OfKind(tx, "ack") = << AckWrite(180), AckWrite(0) >>
    /\ Last(tx).data = Ack0

====
